---- MODULE Spec2Model ----
(***************************************************************************)
(* EasyMCP: the capability registration and request dispatch core of       *)
(* src/lib/EasyMCP.ts (class BaseMCP).  The registries held by the four     *)
(* managers, the server object created by serve(), the position of          *)
(* serve() and the requests in flight are the state; every public method    *)
(* and every bound request handler is an action.  Class EasyMCP and the     *)
(* Tool decorator of src/lib/decorators/Tool.ts are the definition and the  *)
(* construction of a server from a decorated class.                         *)
(***************************************************************************)
EXTENDS Integers, Sequences, FiniteSets, TLC

\* ------------------------------------------------------------------ bounds
MaxEntries == 2     \* entries registered over all five registries
MaxServes == 2      \* calls of serve()
MaxInflight == 1    \* requests whose handler is suspended at the same time
MaxConcurrent == 2  \* the same, in the specification of the serving session alone
MaxMethods == 2     \* methods of a class derived from EasyMCP

\* ------------------------------------------------------------- value sets
\* A URI is a sequence of characters; a template is a sequence of segments,
\* a literal character or the variable placeholder VarSeg.
VarSeg == "{v}"
Uris == {<<"a">>, <<"a", "b">>, <<"b">>}
StaticUris == {<<"a">>, <<"a", "b">>}
Templates == {<<"a", VarSeg>>, <<VarSeg, "b">>}
ToolNames == {"add"}
PromptNames == {"greet"}
\* Declared parameters of a handler: name, type, optional.
Param(n, t, o) == [name |-> n, type |-> t, optional |-> o]
\* An input of a tool or prompt configuration.
Input(p) ==
  [name |-> p.name, type |-> p.type,
   description |-> <<"a ", p.name, " of type ", p.type>>, required |-> ~p.optional]
Config(n, params) == [name |-> n, inputs |-> [i \in 1..Len(params) |-> Input(params[i])]]
ToolConfigs ==
  { Config("add", <<Param("a", "number", FALSE), Param("b", "number", FALSE)>>),
    Config("add", <<Param("a", "number", FALSE), Param("b", "number", TRUE)>>) }
PromptConfigs == { Config("greet", <<Param("a", "string", FALSE)>>) }
\* Argument maps of call-tool and get-prompt requests, as their sets of keys.
ToolArgs == {{"a"}, {"a", "b", "x"}}
PromptArgs == {{}, {"a"}}
RootUris == {"file:///w"}
\* Requested names: each is unknown to the registry of the other kind.
RequestNames == {"add", "greet"}
Tokens == {"t1", "t2"}
Levels == {"info"}
Messages == {"e1", "e2"}
\* What a registered handler does when it is invoked: it returns text or it
\* raises an error with a message.
HandlerOutcomes ==
  {[ok |-> TRUE, val |-> "hello"]} \cup {[ok |-> FALSE, val |-> m] : m \in Messages}

\* Request kinds of the protocol, in the order registerCoreHandlers binds them.
BindOrder ==
  << "resources/list", "resources/templates/list", "resources/read",
     "tools/list", "tools/call", "prompts/list", "prompts/get", "roots/list" >>
RequestKinds == {BindOrder[i] : i \in 1..Len(BindOrder)}
SuspendingKinds == {"resources/read", "tools/call", "prompts/get"}

VARIABLES
  resourceManager,  \* [resources: Seq(uri), templates: Seq(template)]
  toolManager,      \* Seq(tool name)
  promptManager,    \* Seq(prompt name)
  rootsManager,     \* Seq(root uri)
  server,           \* this.server: the Server object, or NullServer
  pc,               \* position of serve(): "idle", "connecting", "done"
  process,          \* [exited, code]: process.exit
  serves,           \* number of serve() calls so far
  inflight,         \* requests whose handler has started and not completed
  slots,            \* how many requests the model lets be in flight at once
  ctor,             \* this.constructor: the class, its prototype, the position of new
  last              \* the most recent call or response and its outcome

vars ==
  << resourceManager, toolManager, promptManager, rootsManager, server, pc,
     process, serves, inflight, slots, ctor, last >>

registries == << resourceManager, toolManager, promptManager, rootsManager >>

\* ----------------------------------------------------------------- values
NullServer == [created |-> FALSE, capabilities |-> {}, handlers |-> {}, connected |-> FALSE]

NoResp == [type |-> "none", class |-> "", message |-> "", contents |-> <<>>]
Result(contents) == [type |-> "result", class |-> "", message |-> "", contents |-> contents]
Err(class, message) == [type |-> "error", class |-> class, message |-> message, contents |-> <<>>]

Event(op, arg, got, resp) == [op |-> op, arg |-> arg, got |-> got, resp |-> resp]

SessionNotReady == Err("Error", "Server not initialized. Call serve() first.")

Range(s) == {s[i] : i \in 1..Len(s)}

\* The metadata the decorators keep on a method under metadataKey: every
\* configuration is absent ({}) or one value.
NoMetadata ==
  [present |-> FALSE, toolConfig |-> {}, promptConfig |-> {}, rootConfig |-> {},
   resourceConfig |-> {}, resourceTemplateConfig |-> {}]
Metadata == [NoMetadata EXCEPT !.present = TRUE]

\* A method of a class: its property key, its declared parameters, its
\* metadata and its property descriptor.
Method(n, params, md) ==
  [name |-> n, parameters |-> params, metadata |-> md, descriptor |-> [value |-> n]]

\* The methods classes are made of: one not decorated yet, and one for each
\* of the other decorators, two of them for the same static URI.
Methods ==
  { Method("add", <<Param("a", "number", FALSE), Param("b", "number", TRUE)>>, NoMetadata),
    Method("greet", <<Param("a", "string", FALSE)>>,
           [Metadata EXCEPT !.promptConfig = PromptConfigs]),
    Method("home", <<>>, [Metadata EXCEPT !.rootConfig = RootUris]),
    Method("readA", <<>>, [Metadata EXCEPT !.resourceConfig = {<<"a">>}]),
    Method("readAgain", <<>>, [Metadata EXCEPT !.resourceConfig = {<<"a">>}]),
    Method("readV", <<Param("v", "string", FALSE)>>,
           [Metadata EXCEPT !.resourceTemplateConfig = {<<"a", VarSeg>>}]) }

\* BaseMCP used without a derived class.
NoClass == [rootConfigs |-> <<>>, prototype |-> <<>>, pc |-> "none", method |-> 0]

The(S) == CHOOSE x \in S : TRUE

TotalEntries ==
  Len(resourceManager.resources) + Len(resourceManager.templates)
    + Len(toolManager) + Len(promptManager) + Len(rootsManager)

Init ==
  /\ resourceManager = [resources |-> <<>>, templates |-> <<>>]
  /\ toolManager = <<>>
  /\ promptManager = <<>>
  /\ rootsManager = <<>>
  /\ server = NullServer
  /\ pc = "idle"
  /\ process = [exited |-> FALSE, code |-> 0]
  /\ serves = 0
  /\ inflight = {}
  /\ slots = MaxInflight
  /\ ctor = NoClass
  /\ last = Event("new", "", NoResp, NoResp)

\* ------------------------------------------------------ ResourceManager
\* addResource: a URI already present is rejected (DuplicateResourceError).
addResource(uri) ==
  IF uri \in Range(resourceManager.resources)
    THEN [rm |-> resourceManager, resp |-> Err("DuplicateResourceError", "duplicate")]
    ELSE [rm |-> [resourceManager EXCEPT !.resources = Append(@, uri)],
          resp |-> Result(<<>>)]

\* addTemplate: appended, no uniqueness check.
addTemplate(t) == [resourceManager EXCEPT !.templates = Append(@, t)]

listResources == resourceManager.resources
listTemplates == resourceManager.templates

Min(S) == CHOOSE x \in S : \A y \in S : x <= y

\* A template matches a URI positionally: a literal segment must equal the
\* next character, a variable captures a non-empty run up to the next
\* literal (to the end of the URI when it is the last segment).
RECURSIVE Matches(_, _)
Matches(t, u) ==
  IF t = <<>> THEN u = <<>>
  ELSE IF Head(t) # VarSeg
    THEN u # <<>> /\ Head(u) = Head(t) /\ Matches(Tail(t), Tail(u))
  ELSE IF Tail(t) = <<>> THEN u # <<>>
  ELSE LET idxs == {i \in 2..Len(u) : u[i] = Head(Tail(t))}
       IN  idxs # {} /\ Matches(Tail(t), SubSeq(u, Min(idxs), Len(u)))

\* Variant: the scan keeps the last template that matches.
FirstMatchLast(uri) ==
  LET hits == {i \in 1..Len(resourceManager.templates) :
                 Matches(resourceManager.templates[i], uri)}
  IN  IF hits = {} THEN 0 ELSE CHOOSE x \in hits : \A y \in hits : y <= x

\* Index of the first registered template matching uri, 0 when none does.
FirstMatch(uri) ==
  LET hits == {i \in 1..Len(resourceManager.templates) :
                 Matches(resourceManager.templates[i], uri)}
  IN  IF hits = {} THEN 0 ELSE Min(hits)

\* get(uri), the lookup: a static resource first, then the templates in
\* registration order; via = 0 is the static resource, via = i template i.
resourceLookup(uri) ==
  IF uri \in Range(resourceManager.resources) THEN [found |-> TRUE, via |-> 0]
  ELSE IF FirstMatch(uri) # 0 THEN [found |-> TRUE, via |-> FirstMatch(uri)]
  ELSE [found |-> FALSE, via |-> 0]

ResourceNotFound == Err("ResourceNotFoundError", "not found")

\* get(uri), the invocation: the handler's text is the content, an error it
\* raises is re-raised as ResourceError with the same message.
resourceGet(uri, h) ==
  IF h.ok
    THEN Result(<< [uri |-> uri, mimeType |-> "handler", text |-> h.val] >>)
    ELSE Err("ResourceError", h.val)

\* ------------------------------------------- Tool / Prompt / RootsManager
\* Names are unique in the registry: registering a present name leaves the
\* set of registered names as it was.
Names(reg) == {reg[i].name : i \in 1..Len(reg)}
Entry(reg, name) == reg[CHOOSE i \in 1..Len(reg) : reg[i].name = name]

toolManagerAdd(config) ==
  IF config.name \in Names(toolManager) THEN toolManager ELSE Append(toolManager, config)

promptManagerAdd(config) ==
  IF config.name \in Names(promptManager)
    THEN promptManager ELSE Append(promptManager, config)

rootsManagerAdd(uri) == Append(rootsManager, uri)

\* Validation of an argument map against the inputs of a configuration: the
\* first input marked required whose key is absent, "" when there is none.
MissingArgument(config, args) ==
  LET miss == {i \in 1..Len(config.inputs) :
                 config.inputs[i].required /\ config.inputs[i].name \notin args}
  IN  IF miss = {} THEN "" ELSE config.inputs[Min(miss)].name

\* call(name, args), before the handler runs: the lookup and the validation.
\* NoResp when the handler is to be invoked.
toolManagerCheck(name, args) ==
  IF name \notin Names(toolManager) THEN Err("ToolNotFoundError", name)
  ELSE IF MissingArgument(Entry(toolManager, name), args) # ""
    THEN Err("MissingArgumentError", MissingArgument(Entry(toolManager, name), args))
  ELSE NoResp

toolManagerCall(name, args, h) ==
  IF toolManagerCheck(name, args) # NoResp THEN toolManagerCheck(name, args)
  ELSE IF h.ok THEN Result(<<h.val>>)
  ELSE Err("ToolExecutionError", h.val)

promptManagerCheck(name, args) ==
  IF name \notin Names(promptManager) THEN Err("PromptNotFoundError", name)
  ELSE IF MissingArgument(Entry(promptManager, name), args) # ""
    THEN Err("MissingArgumentError", MissingArgument(Entry(promptManager, name), args))
  ELSE NoResp

promptManagerCall(name, args, h) ==
  IF promptManagerCheck(name, args) # NoResp THEN promptManagerCheck(name, args)
  ELSE IF h.ok THEN Result(<<h.val>>)
  ELSE Err("PromptExecutionError", h.val)

\* ---------------------------------------------------------------- BaseMCP
listCapabilities ==
  [ resources |-> listResources,
    resourceTemplates |-> listTemplates,
    tools |-> toolManager,
    prompts |-> promptManager,
    roots |-> rootsManager ]

\* Variant: the resources flag taken from the static resources alone.
registerCapabilitiesStaticOnly ==
  (IF Len(listResources) # 0 THEN {"resources"} ELSE {})
    \cup {"logging"}
    \cup (IF Len(toolManager) # 0 THEN {"tools"} ELSE {})
    \cup (IF Len(promptManager) # 0 THEN {"prompts"} ELSE {})
    \cup (IF Len(rootsManager) # 0 THEN {"roots"} ELSE {})

\* Variant: the logging flag set inside the tools branch.
registerCapabilitiesLoggingWithTools ==
  (IF Len(listResources) # 0 \/ Len(listTemplates) # 0 THEN {"resources"} ELSE {})
    \cup (IF Len(toolManager) # 0 THEN {"logging", "tools"} ELSE {})
    \cup (IF Len(promptManager) # 0 THEN {"prompts"} ELSE {})
    \cup (IF Len(rootsManager) # 0 THEN {"roots"} ELSE {})

registerCapabilities ==
  (IF Len(listResources) # 0 \/ Len(listTemplates) # 0 THEN {"resources"} ELSE {})
    \cup {"logging"}
    \cup (IF Len(toolManager) # 0 THEN {"tools"} ELSE {})
    \cup (IF Len(promptManager) # 0 THEN {"prompts"} ELSE {})
    \cup (IF Len(rootsManager) # 0 THEN {"roots"} ELSE {})

\* Variant: the tool handlers bound without the length test.
registerCoreHandlersToolsAlways ==
  LET capabilities == listCapabilities IN
  (IF Len(capabilities.resources) # 0
     THEN {"resources/list", "resources/templates/list", "resources/read"} ELSE {})
    \cup {"tools/list", "tools/call"}
    \cup (IF Len(capabilities.prompts) # 0 THEN {"prompts/list", "prompts/get"} ELSE {})
    \cup (IF Len(capabilities.roots) # 0 THEN {"roots/list"} ELSE {})

registerCoreHandlers ==
  LET capabilities == listCapabilities IN
  (IF Len(capabilities.resources) # 0
     THEN {"resources/list", "resources/templates/list", "resources/read"} ELSE {})
    \cup (IF Len(capabilities.tools) # 0 THEN {"tools/list", "tools/call"} ELSE {})
    \cup (IF Len(capabilities.prompts) # 0 THEN {"prompts/list", "prompts/get"} ELSE {})
    \cup (IF Len(capabilities.roots) # 0 THEN {"roots/list"} ELSE {})

\* Variant: the catch block logs the error and returns.
ServeCatchNoExit == process

\* The catch block of serve(): console.error, process.exit(1).
ServeCatch == [exited |-> TRUE, code |-> 1]

Running == ~process.exited
Unconnected == Running /\ ~server.created
Negotiating == Running /\ server.created /\ ~server.connected
Serving == Running /\ server.created /\ server.connected

\* Variant: serve() connects the transport before it binds the handlers.
ServeBeginConnectFirst(fail) ==
  /\ Running
  /\ pc \in {"idle", "done"}
  /\ serves < MaxServes
  /\ serves' = serves + 1
  /\ UNCHANGED << ctor, slots, registries, inflight >>
  /\ IF fail = "none"
       THEN /\ server' = [created |-> TRUE, capabilities |-> registerCapabilities,
                          handlers |-> {}, connected |-> TRUE]
            /\ pc' = "connecting"
            /\ process' = process
            /\ last' = Event("serve", "begin", NoResp, Result(<<>>))
       ELSE /\ server' = server
            /\ pc' = "done"
            /\ process' = ServeCatch
            /\ last' = Event("serve", "begin", NoResp, Err("Error", fail))

\* serve(), up to its first suspension: the transport and the Server object
\* are constructed with the capability set, and registerCoreHandlers binds
\* the handlers.  Each of the three steps may raise.
ServeBegin(fail) ==
  /\ Running
  /\ pc \in {"idle", "done"}
  /\ serves < MaxServes
  /\ serves' = serves + 1
  /\ UNCHANGED << ctor, slots, registries, inflight >>
  /\ CASE fail = "none" ->
            /\ server' = [created |-> TRUE, capabilities |-> registerCapabilities,
                          handlers |-> registerCoreHandlers, connected |-> FALSE]
            /\ pc' = "connecting"
            /\ process' = process
            /\ last' = Event("serve", "begin", NoResp, Result(<<>>))
       [] fail \in {"transport", "server"} ->
            /\ server' = server
            /\ pc' = "done"
            /\ process' = ServeCatch
            /\ last' = Event("serve", "begin", NoResp, Err("Error", fail))
       [] fail = "bind" ->
            \E k \in 1..Len(BindOrder) :
              /\ BindOrder[k] \in registerCoreHandlers
              /\ server' = [created |-> TRUE, capabilities |-> registerCapabilities,
                            handlers |-> {BindOrder[i] : i \in 1..(k - 1)}
                                           \cap registerCoreHandlers,
                            connected |-> FALSE]
              /\ pc' = "done"
              /\ process' = ServeCatch
              /\ last' = Event("serve", "begin", NoResp, Err("Error", fail))

\* serve(), after the suspension: server.connect(transport) completes or
\* raises.
ServeConnect(ok) ==
  /\ Running
  /\ pc = "connecting"
  /\ pc' = "done"
  /\ UNCHANGED << ctor, slots, registries, inflight, serves >>
  /\ IF ok
       THEN /\ server' = [server EXCEPT !.connected = TRUE]
            /\ process' = process
            /\ last' = Event("serve", "connect", NoResp, Result(<<>>))
       ELSE /\ server' = server
            /\ process' = ServeCatch
            /\ last' = Event("serve", "connect", NoResp, Err("Error", "connect"))

\* ------------------------------------------------------------ Tool decorator
\* extractFunctionMetadata: the declared parameters of the method.
extractFunctionMetadata(method) == [parameters |-> method.parameters]

\* Variant: every input is marked required.
ToolAllRequired(method) ==
  LET metadata == extractFunctionMetadata(method)
      toolConfig ==
        [name |-> method.name,
         inputs |-> [i \in 1..Len(metadata.parameters) |->
                       [Input(metadata.parameters[i]) EXCEPT !.required = TRUE]]]
  IN  [method EXCEPT !.metadata = [@ EXCEPT !.present = TRUE, !.toolConfig = {toolConfig}]]

\* Tool(config)(target, propertyKey, descriptor): the tool configuration is
\* built from the property key and the parameters, stored under toolConfig
\* in the metadata of the method, which is created when the method has
\* none, and the descriptor is returned.
Tool(method) ==
  LET metadata == extractFunctionMetadata(method)
      toolConfig == Config(method.name, metadata.parameters)
  IN  [method EXCEPT !.metadata = [@ EXCEPT !.present = TRUE, !.toolConfig = {toolConfig}],
                     !.descriptor = method.descriptor]

\* The decorator applied to the i-th method while the class is defined.
ToolDecorate(i) ==
  /\ ctor.pc = "defining"
  /\ i \in 1..Len(ctor.prototype)
  /\ ctor' = [ctor EXCEPT !.prototype[i] = Tool(@)]
  /\ last' = Event("Tool", ctor.prototype[i].name, NoResp, Result(<<>>))
  /\ UNCHANGED << slots, registries, server, pc, process, serves, inflight >>

\* ---------------------------------------------------------------- EasyMCP
\* new: the class-level roots are registered first.
EasyMCPRoots ==
  /\ ctor.pc = "defining"
  /\ ctor' = [ctor EXCEPT !.pc = "registering", !.method = 1]
  /\ rootsManager' = rootsManager \o ctor.rootConfigs
  /\ last' = Event("EasyMCP", "rootConfigs", NoResp, Result(<<>>))
  /\ UNCHANGED << slots, resourceManager, toolManager, promptManager, server, pc,
                  process, serves, inflight >>

\* new: the next method of the prototype; its tool, prompt, root, resource and
\* template configurations are registered in this order.  Reading a
\* configuration of a method without metadata raises, and so does a static
\* resource whose URI is registered already.
EasyMCPMethod ==
  /\ ctor.pc = "registering"
  /\ ctor.method <= Len(ctor.prototype)
  /\ UNCHANGED << slots, server, pc, process, serves, inflight >>
  /\ LET m == ctor.prototype[ctor.method]
         md == m.metadata
         res == IF md.resourceConfig # {}
                  THEN addResource(The(md.resourceConfig))
                  ELSE [rm |-> resourceManager, resp |-> Result(<<>>)]
     IN  IF ~md.present
           THEN /\ ctor' = [ctor EXCEPT !.pc = "raised"]
                /\ UNCHANGED registries
                /\ last' = Event("EasyMCP", m.name, NoResp, Err("TypeError", "undefined"))
           ELSE /\ toolManager' = IF md.toolConfig # {}
                                    THEN toolManagerAdd(The(md.toolConfig)) ELSE toolManager
                /\ promptManager' = IF md.promptConfig # {}
                                      THEN promptManagerAdd(The(md.promptConfig))
                                      ELSE promptManager
                /\ rootsManager' = IF md.rootConfig # {}
                                     THEN rootsManagerAdd(The(md.rootConfig)) ELSE rootsManager
                /\ resourceManager' =
                     IF res.resp.type # "error" /\ md.resourceTemplateConfig # {}
                       THEN [res.rm EXCEPT !.templates =
                                             Append(@, The(md.resourceTemplateConfig))]
                       ELSE res.rm
                /\ ctor' = IF res.resp.type = "error"
                             THEN [ctor EXCEPT !.pc = "raised"]
                             ELSE [ctor EXCEPT !.method = @ + 1]
                /\ last' = Event("EasyMCP", m.name, NoResp, res.resp)

\* Variant: serve() is called before the methods are registered.
EasyMCPServeFirst(fail) ==
  /\ ctor.pc = "registering"
  /\ serves = 0
  /\ ServeBegin(fail)

\* new: the last statement, this.serve(), up to its first suspension.
EasyMCPServe(fail) ==
  /\ ctor.pc = "registering"
  /\ ctor.method > Len(ctor.prototype)
  /\ serves = 0
  /\ ServeBegin(fail)

\* ------------------------------------------------------------ registration
CanRegister == Running /\ TotalEntries < MaxEntries

\* Variant: a registration that also binds the tool handlers on the server.
toolRebinding(config) ==
  /\ CanRegister
  /\ toolManager' = toolManagerAdd(config)
  /\ server' = IF server.created
                 THEN [server EXCEPT !.handlers = @ \cup {"tools/list", "tools/call"}]
                 ELSE server
  /\ last' = Event("tool", config.name, NoResp, Result(<<>>))
  /\ UNCHANGED << ctor, slots, resourceManager, promptManager, rootsManager, pc,
                  process, serves, inflight >>

tool(config) ==
  /\ CanRegister
  /\ toolManager' = toolManagerAdd(config)
  /\ last' = Event("tool", config.name, NoResp, Result(<<>>))
  /\ UNCHANGED << ctor, slots, resourceManager, promptManager, rootsManager, server, pc,
                  process, serves, inflight >>

resource(uri) ==
  /\ CanRegister
  /\ resourceManager' = addResource(uri).rm
  /\ last' = Event("resource", uri, NoResp, addResource(uri).resp)
  /\ UNCHANGED << ctor, slots, toolManager, promptManager, rootsManager, server, pc,
                  process, serves, inflight >>

template(t) ==
  /\ CanRegister
  /\ resourceManager' = addTemplate(t)
  /\ last' = Event("template", t, NoResp, Result(<<>>))
  /\ UNCHANGED << ctor, slots, toolManager, promptManager, rootsManager, server, pc,
                  process, serves, inflight >>

prompt(config) ==
  /\ CanRegister
  /\ promptManager' = promptManagerAdd(config)
  /\ last' = Event("prompt", config.name, NoResp, Result(<<>>))
  /\ UNCHANGED << ctor, slots, resourceManager, toolManager, rootsManager, server, pc,
                  process, serves, inflight >>

root(uri) ==
  /\ CanRegister
  /\ rootsManager' = rootsManagerAdd(uri)
  /\ last' = Event("root", uri, NoResp, Result(<<>>))
  /\ UNCHANGED << ctor, slots, resourceManager, toolManager, promptManager, server, pc,
                  process, serves, inflight >>

\* ------------------------------------------------- sendLog, createContext
\* Variant: sendLog without the test of this.server.
sendLogUnchecked(level) ==
  Event("sendLog", level, Result(<<level>>), Result(<<>>))

\* sendLog: got is what is handed to server.sendLoggingMessage.
sendLog(level) ==
  IF ~server.created
    THEN Event("sendLog", level, NoResp, SessionNotReady)
    ELSE Event("sendLog", level, Result(<<level>>), Result(<<>>))

createContext(meta) ==
  IF ~server.created
    THEN SessionNotReady
    ELSE Result(<< [meta |-> meta] >>)

CallSendLog(level) ==
  /\ Running
  /\ last' = sendLog(level)
  /\ UNCHANGED << ctor, slots, registries, server, pc, process, serves, inflight >>

CallCreateContext(meta) ==
  /\ Running
  /\ last' = Event("createContext", meta, NoResp, createContext(meta))
  /\ UNCHANGED << ctor, slots, registries, server, pc, process, serves, inflight >>

\* --------------------------------------------------------- inbound requests
MethodNotFound == Err("McpError", "Method not found")

RequestArgs(kind) ==
  IF kind = "resources/read" THEN Uris
  ELSE IF kind \in SuspendingKinds THEN RequestNames
  ELSE {""}

FreeIds == (1..slots) \ {r.id : r \in inflight}

\* The Context object a call-tool request runs with: obj is the identity of
\* the object, NoContext the value of a request that has none.
NoContext == [meta |-> "", obj |-> 0]
NewContext(meta) == [meta |-> createContext(meta).contents[1].meta, obj |-> Min(FreeIds)]

\* A request of a kind no handler is bound for is rejected by the transport
\* layer.
Rejected(kind, arg) ==
  /\ Serving
  /\ kind \notin server.handlers
  /\ last' = Event(kind, arg, NoResp, MethodNotFound)
  /\ UNCHANGED << ctor, slots, registries, server, pc, process, serves, inflight >>

ListHandler(kind) ==
  CASE kind = "resources/list" -> Result(listResources)
    [] kind = "resources/templates/list" -> Result(listTemplates)
    [] kind = "tools/list" -> Result(toolManager)
    [] kind = "prompts/list" -> Result(promptManager)
    [] kind = "roots/list" -> Result(rootsManager)

\* Variant: the list-roots handler takes the entries out of the registry.
ListRequestDraining(kind) ==
  /\ Serving
  /\ kind \in server.handlers \ SuspendingKinds
  /\ last' = Event(kind, "", NoResp, ListHandler(kind))
  /\ rootsManager' = IF kind = "roots/list" THEN <<>> ELSE rootsManager
  /\ UNCHANGED << ctor, slots, resourceManager, toolManager, promptManager, server, pc,
                  process, serves, inflight >>

ListRequest(kind) ==
  /\ Serving
  /\ kind \in server.handlers \ SuspendingKinds
  /\ last' = Event(kind, "", NoResp, ListHandler(kind))
  /\ UNCHANGED << ctor, slots, registries, server, pc, process, serves, inflight >>

\* Variant: the catch block answers every error with the placeholder.
ReadResourceHandlerAllPlaceholder(uri, got) ==
  IF got.type = "result" THEN got
  ELSE Result(<< [uri |-> uri, mimeType |-> "text/plain",
                  text |-> "Resource not found"] >>)

\* The ReadResourceRequestSchema handler, applied to the outcome of
\* resourceManager.get(uri).
ReadResourceHandler(uri, got) ==
  IF got.type = "result" THEN got
  ELSE IF got.class = "ResourceNotFoundError"
    THEN Result(<< [uri |-> uri, mimeType |-> "text/plain",
                    text |-> "Resource not found"] >>)
  ELSE Err("ResourceError", got.message)

\* Variant: the request is routed to the last template that matches.
ReadResourceStartLastMatch(uri) ==
  /\ Serving
  /\ "resources/read" \in server.handlers
  /\ UNCHANGED << ctor, slots, registries, server, pc, process, serves >>
  /\ IF resourceLookup(uri).found
       THEN /\ FreeIds # {}
            /\ inflight' = inflight \cup
                 {[id |-> Min(FreeIds), kind |-> "resources/read", uri |-> uri,
                   name |-> "", args |-> {},
                   via |-> IF uri \in Range(resourceManager.resources)
                             THEN 0 ELSE FirstMatchLast(uri),
                   meta |-> "", ctx |-> NoContext]}
            /\ last' = last
       ELSE /\ inflight' = inflight
            /\ last' = Event("resources/read", uri, ResourceNotFound,
                             ReadResourceHandler(uri, ResourceNotFound))

\* read-resource: the lookup is done when the handler starts; a resource
\* handler that is found is invoked and the request stays in flight.
ReadResourceStart(uri) ==
  /\ Serving
  /\ "resources/read" \in server.handlers
  /\ UNCHANGED << ctor, slots, registries, server, pc, process, serves >>
  /\ IF resourceLookup(uri).found
       THEN /\ FreeIds # {}
            /\ inflight' = inflight \cup
                 {[id |-> Min(FreeIds), kind |-> "resources/read", uri |-> uri,
                   name |-> "", args |-> {}, via |-> resourceLookup(uri).via, meta |-> "",
                   ctx |-> NoContext]}
            /\ last' = last
       ELSE /\ inflight' = inflight
            /\ last' = Event("resources/read", uri, ResourceNotFound,
                             ReadResourceHandler(uri, ResourceNotFound))

\* Variant: a template result is kept as a static resource of that URI.
ReadResourceDoneCaching(r, h) ==
  /\ Running
  /\ r \in inflight
  /\ r.kind = "resources/read"
  /\ inflight' = inflight \ {r}
  /\ last' = Event("resources/read", r.uri, resourceGet(r.uri, h),
                   ReadResourceHandler(r.uri, resourceGet(r.uri, h)))
  /\ resourceManager' = IF h.ok THEN addResource(r.uri).rm ELSE resourceManager
  /\ UNCHANGED << ctor, slots, toolManager, promptManager, rootsManager, server, pc, process, serves >>

ReadResourceDone(r, h) ==
  /\ Running
  /\ r \in inflight
  /\ r.kind = "resources/read"
  /\ inflight' = inflight \ {r}
  /\ last' = Event("resources/read", r.uri, resourceGet(r.uri, h),
                   ReadResourceHandler(r.uri, resourceGet(r.uri, h)))
  /\ UNCHANGED << ctor, slots, registries, server, pc, process, serves >>

\* Variant: a failure of the tool answered as a text result.
CallToolHandlerErrorAsText(got) ==
  IF got.type = "result"
    THEN Result(<< [type |-> "text", text |-> got.contents[1]] >>)
    ELSE Result(<< [type |-> "text", text |-> got.message] >>)

\* The CallToolRequestSchema handler, applied to the outcome of
\* toolManager.call: the result is wrapped as one text item, an error
\* propagates.
CallToolHandler(got) ==
  IF got.type = "result"
    THEN Result(<< [type |-> "text", text |-> got.contents[1]] >>)
    ELSE got

\* Variant: the handler passes no arguments on to toolManager.call.
CallToolStartNoArguments(name, args, meta) ==
  /\ Serving
  /\ "tools/call" \in server.handlers
  /\ UNCHANGED << ctor, slots, registries, server, pc, process, serves >>
  /\ IF toolManagerCheck(name, {}) = NoResp
       THEN /\ FreeIds # {}
            /\ inflight' = inflight \cup
                 {[id |-> Min(FreeIds), kind |-> "tools/call", uri |-> <<>>,
                   name |-> name, args |-> args, via |-> 0, meta |-> meta,
                   ctx |-> NewContext(meta)]}
            /\ last' = last
       ELSE /\ inflight' = inflight
            /\ last' = Event("tools/call", [name |-> name, args |-> args],
                             toolManagerCheck(name, {}),
                             CallToolHandler(toolManagerCheck(name, {})))

\* Variant: a call-tool request is taken up only when no other request is
\* in flight.
CallToolStartSerialized(name, args, meta) ==
  /\ Serving
  /\ "tools/call" \in server.handlers
  /\ inflight = {}
  /\ UNCHANGED << ctor, slots, registries, server, pc, process, serves >>
  /\ IF createContext(meta).type = "error"
       THEN /\ inflight' = inflight
            /\ last' = Event("tools/call", [name |-> name, args |-> args],
                             createContext(meta), createContext(meta))
       ELSE IF toolManagerCheck(name, args) = NoResp
       THEN /\ FreeIds # {}
            /\ inflight' = inflight \cup
                 {[id |-> Min(FreeIds), kind |-> "tools/call", uri |-> <<>>,
                   name |-> name, args |-> args, via |-> 0, meta |-> meta,
                   ctx |-> NewContext(meta)]}
            /\ last' = last
       ELSE /\ inflight' = inflight
            /\ last' = Event("tools/call", [name |-> name, args |-> args],
                             toolManagerCheck(name, args),
                             CallToolHandler(toolManagerCheck(name, args)))

\* Variant: the context of a request already in flight is handed to the next
\* call-tool request.
CallToolStartSharedContext(name, args, meta) ==
  /\ Serving
  /\ "tools/call" \in server.handlers
  /\ UNCHANGED << ctor, slots, registries, server, pc, process, serves >>
  /\ IF createContext(meta).type = "error"
       THEN /\ inflight' = inflight
            /\ last' = Event("tools/call", [name |-> name, args |-> args],
                             createContext(meta), createContext(meta))
       ELSE IF toolManagerCheck(name, args) = NoResp
       THEN /\ FreeIds # {}
            /\ inflight' = inflight \cup
                 {[id |-> Min(FreeIds), kind |-> "tools/call", uri |-> <<>>,
                   name |-> name, args |-> args, via |-> 0, meta |-> meta,
                   ctx |-> IF \E r \in inflight : r.kind = "tools/call"
                             THEN (CHOOSE r \in inflight : r.kind = "tools/call").ctx
                             ELSE NewContext(meta)]}
            /\ last' = last
       ELSE /\ inflight' = inflight
            /\ last' = Event("tools/call", [name |-> name, args |-> args],
                             toolManagerCheck(name, args),
                             CallToolHandler(toolManagerCheck(name, args)))

\* call-tool: the context is created, the tool is looked up and its
\* arguments validated when the handler starts; a tool handler that is
\* invoked keeps the request in flight.
CallToolStart(name, args, meta) ==
  /\ Serving
  /\ "tools/call" \in server.handlers
  /\ UNCHANGED << ctor, slots, registries, server, pc, process, serves >>
  /\ IF createContext(meta).type = "error"
       THEN /\ inflight' = inflight
            /\ last' = Event("tools/call", [name |-> name, args |-> args],
                             createContext(meta), createContext(meta))
       ELSE IF toolManagerCheck(name, args) = NoResp
       THEN /\ FreeIds # {}
            /\ inflight' = inflight \cup
                 {[id |-> Min(FreeIds), kind |-> "tools/call", uri |-> <<>>,
                   name |-> name, args |-> args, via |-> 0, meta |-> meta,
                   ctx |-> NewContext(meta)]}
            /\ last' = last
       ELSE /\ inflight' = inflight
            /\ last' = Event("tools/call", [name |-> name, args |-> args],
                             toolManagerCheck(name, args),
                             CallToolHandler(toolManagerCheck(name, args)))

CallToolDone(r, h) ==
  /\ Running
  /\ r \in inflight
  /\ r.kind = "tools/call"
  /\ inflight' = inflight \ {r}
  /\ last' = Event("tools/call", [name |-> r.name, args |-> r.args],
                   toolManagerCall(r.name, r.args, h),
                   CallToolHandler(toolManagerCall(r.name, r.args, h)))
  /\ UNCHANGED << ctor, slots, registries, server, pc, process, serves >>

\* The GetPromptRequestSchema handler: the result is wrapped as one user
\* message, an error propagates.
GetPromptHandler(got) ==
  IF got.type = "result"
    THEN Result(<< [role |-> "user", type |-> "text", text |-> got.contents[1]] >>)
    ELSE got

GetPromptStart(name, args) ==
  /\ Serving
  /\ "prompts/get" \in server.handlers
  /\ UNCHANGED << ctor, slots, registries, server, pc, process, serves >>
  /\ IF promptManagerCheck(name, args) = NoResp
       THEN /\ FreeIds # {}
            /\ inflight' = inflight \cup
                 {[id |-> Min(FreeIds), kind |-> "prompts/get", uri |-> <<>>,
                   name |-> name, args |-> args, via |-> 0, meta |-> "",
                   ctx |-> NoContext]}
            /\ last' = last
       ELSE /\ inflight' = inflight
            /\ last' = Event("prompts/get", [name |-> name, args |-> args],
                             promptManagerCheck(name, args),
                             GetPromptHandler(promptManagerCheck(name, args)))

GetPromptDone(r, h) ==
  /\ Running
  /\ r \in inflight
  /\ r.kind = "prompts/get"
  /\ inflight' = inflight \ {r}
  /\ last' = Event("prompts/get", [name |-> r.name, args |-> r.args],
                   promptManagerCall(r.name, r.args, h),
                   GetPromptHandler(promptManagerCall(r.name, r.args, h)))
  /\ UNCHANGED << ctor, slots, registries, server, pc, process, serves >>

\* ------------------------------------------------------------ specification
Next ==
  \/ \E fail \in {"none", "transport", "server", "bind"} : ServeBegin(fail)
  \/ \E ok \in BOOLEAN : ServeConnect(ok)
  \/ \E c \in ToolConfigs : tool(c)
  \/ \E u \in StaticUris : resource(u)
  \/ \E t \in Templates : template(t)
  \/ \E c \in PromptConfigs : prompt(c)
  \/ \E u \in RootUris : root(u)
  \/ \E l \in Levels : CallSendLog(l)
  \/ \E m \in Tokens : CallCreateContext(m)
  \/ \E k \in RequestKinds : \E a \in RequestArgs(k) : Rejected(k, a)
  \/ \E k \in RequestKinds : ListRequest(k)
  \/ \E u \in Uris : ReadResourceStart(u)
  \/ \E r \in inflight : \E h \in HandlerOutcomes : ReadResourceDone(r, h)
  \/ \E n \in RequestNames : \E a \in ToolArgs : \E m \in Tokens : CallToolStart(n, a, m)
  \/ \E r \in inflight : \E h \in HandlerOutcomes : CallToolDone(r, h)
  \/ \E n \in RequestNames : \E a \in PromptArgs : GetPromptStart(n, a)
  \/ \E r \in inflight : \E h \in HandlerOutcomes : GetPromptDone(r, h)

Spec == Init /\ [][Next]_vars

\* The serving session alone: a server that has registered a static
\* resource, two templates, a tool and a prompt, has connected, and from then
\* on only receives requests, several of which may be in flight.
InitServing ==
  /\ \E t1 \in Templates : \E t2 \in Templates \ {t1} :
       resourceManager = [resources |-> << <<"a">> >>, templates |-> <<t1, t2>>]
  /\ \E c \in ToolConfigs : toolManager = <<c>>
  /\ \E c \in PromptConfigs : promptManager = <<c>>
  /\ rootsManager = <<>>
  /\ server = [created |-> TRUE, capabilities |-> registerCapabilities,
               handlers |-> registerCoreHandlers, connected |-> TRUE]
  /\ pc = "done"
  /\ process = [exited |-> FALSE, code |-> 0]
  /\ serves = 1
  /\ inflight = {}
  /\ slots = MaxConcurrent
  /\ ctor = NoClass
  /\ last = Event("serve", "connect", NoResp, Result(<<>>))

NextServing ==
  \/ \E k \in RequestKinds : \E a \in RequestArgs(k) : Rejected(k, a)
  \/ \E k \in RequestKinds : ListRequest(k)
  \/ \E u \in Uris : ReadResourceStart(u)
  \/ \E r \in inflight : \E h \in HandlerOutcomes : ReadResourceDone(r, h)
  \/ \E n \in RequestNames : \E a \in ToolArgs : \E m \in Tokens : CallToolStart(n, a, m)
  \/ \E r \in inflight : \E h \in HandlerOutcomes : CallToolDone(r, h)
  \/ \E n \in RequestNames : \E a \in PromptArgs : GetPromptStart(n, a)
  \/ \E r \in inflight : \E h \in HandlerOutcomes : GetPromptDone(r, h)

SpecServing == InitServing /\ [][NextServing]_vars

\* A class derived from EasyMCP, from its definition to its connection: the
\* class has up to MaxMethods methods, the Tool decorator is applied to some
\* of them, then the class is instantiated.
InitClass ==
  /\ resourceManager = [resources |-> <<>>, templates |-> <<>>]
  /\ toolManager = <<>>
  /\ promptManager = <<>>
  /\ rootsManager = <<>>
  /\ server = NullServer
  /\ pc = "idle"
  /\ process = [exited |-> FALSE, code |-> 0]
  /\ serves = 0
  /\ inflight = {}
  /\ slots = MaxInflight
  /\ \E roots \in {<<>>} \cup {<<r>> : r \in RootUris} :
     \E n \in 1..MaxMethods : \E ms \in [1..n -> Methods] :
       /\ \A i \in 1..n : \A j \in 1..n : ms[i].name = ms[j].name => i = j
       /\ ctor = [rootConfigs |-> roots, prototype |-> ms, pc |-> "defining", method |-> 0]
  /\ last = Event("class", "", NoResp, NoResp)

NextClass ==
  \/ \E i \in 1..MaxMethods : ToolDecorate(i)
  \/ EasyMCPRoots
  \/ EasyMCPMethod
  \/ \E f \in {"none", "transport", "server", "bind"} : EasyMCPServe(f)
  \/ \E ok \in BOOLEAN : ServeConnect(ok)

SpecClass == InitClass /\ [][NextClass]_vars

\* ==================================================================== claims
ResourceKinds == {"resources/list", "resources/templates/list", "resources/read"}
ToolKinds == {"tools/list", "tools/call"}
PromptKinds == {"prompts/list", "prompts/get"}
RootKinds == {"roots/list"}
RegistrationOps == {"tool", "resource", "template", "prompt", "root"}

\* serve() has just built the server and bound the handlers: the registries
\* are those the capability set and the handlers were computed from.
JustBound ==
  /\ last.op = "serve"
  /\ last.arg = "begin"
  /\ last.resp.type = "result"
  /\ server.created

Placeholder(uri) ==
  Result(<< [uri |-> uri, mimeType |-> "text/plain", text |-> "Resource not found"] >>)

IsPrefix(s, t) == Len(s) <= Len(t) /\ SubSeq(t, 1, Len(s)) = s

\* C1: the capability set computed at connect holds the flag of a registry
\* exactly when that registry is non-empty at that moment (tools, prompts,
\* roots from their own registry; resources from the static-resource and the
\* template registries together).
C1_CapabilitiesFollowRegistries ==
  JustBound =>
    /\ ("resources" \in server.capabilities)
         <=> (resourceManager.resources # <<>> \/ resourceManager.templates # <<>>)
    /\ ("tools" \in server.capabilities) <=> (toolManager # <<>>)
    /\ ("prompts" \in server.capabilities) <=> (promptManager # <<>>)
    /\ ("roots" \in server.capabilities) <=> (rootsManager # <<>>)

C1_Witness ==
  /\ JustBound
  /\ resourceManager.resources = <<>>
  /\ resourceManager.templates # <<>>
  /\ toolManager # <<>>
  /\ promptManager = <<>>
  /\ server.capabilities = {"resources", "logging", "tools"}

\* C2 (as claimed): once serve() has bound its handlers, every advertised
\* capability has its request handlers bound.
C2_AdvertisedIsBound ==
  (Running /\ server.created) =>
    /\ ("resources" \in server.capabilities) => (ResourceKinds \subseteq server.handlers)
    /\ ("tools" \in server.capabilities) => (ToolKinds \subseteq server.handlers)
    /\ ("prompts" \in server.capabilities) => (PromptKinds \subseteq server.handlers)
    /\ ("roots" \in server.capabilities) => (RootKinds \subseteq server.handlers)

\* C3 (as claimed): a registry that is empty when serve() binds the handlers
\* has none of its own list or read/invoke handlers bound, for each of the
\* five registries taken alone.
C3_EmptyRegistryUnbound ==
  JustBound =>
    /\ (resourceManager.resources = <<>>)
         => ({"resources/list", "resources/read"} \cap server.handlers = {})
    /\ (resourceManager.templates = <<>>)
         => ({"resources/templates/list", "resources/read"} \cap server.handlers = {})
    /\ (toolManager = <<>>) => (ToolKinds \cap server.handlers = {})
    /\ (promptManager = <<>>) => (PromptKinds \cap server.handlers = {})
    /\ (rootsManager = <<>>) => (RootKinds \cap server.handlers = {})

\* C3 (amended): a capability all of whose registries are empty when serve()
\* binds the handlers has no handler bound: resources when both the
\* static-resource and the template registry are empty, tools, prompts and
\* roots when their own registry is empty.
C3_EmptyCapabilityUnbound ==
  JustBound =>
    /\ (resourceManager.resources = <<>> /\ resourceManager.templates = <<>>)
         => (ResourceKinds \cap server.handlers = {})
    /\ (toolManager = <<>>) => (ToolKinds \cap server.handlers = {})
    /\ (promptManager = <<>>) => (PromptKinds \cap server.handlers = {})
    /\ (rootsManager = <<>>) => (RootKinds \cap server.handlers = {})

C3_Witness ==
  /\ JustBound
  /\ resourceManager.resources = <<>>
  /\ resourceManager.templates = <<>>
  /\ toolManager = <<>>
  /\ rootsManager # <<>>
  /\ server.handlers = RootKinds

\* C4: the logging flag is in the advertised capability set whatever the
\* registries hold, also when all five are empty.
C4_LoggingAlwaysAdvertised ==
  server.created => ("logging" \in server.capabilities)

C4_Witness ==
  /\ JustBound
  /\ TotalEntries = 0
  /\ server.capabilities = {"logging"}

\* C5 (as claimed): with at least one resource or template registered at
\* connect, a read-resource request for a URI that matches no static
\* resource and no template ends in the not-found placeholder.
C5_NoMatchIsPlaceholder ==
  ( /\ last.op = "resources/read"
    /\ last.resp.type # "none"
    /\ "resources" \in server.capabilities
    /\ ~resourceLookup(last.arg).found )
  => last.resp = Placeholder(last.arg)

\* C6: a read-resource request whose lookup fails with an error other than
\* ResourceNotFoundError ends in a failure of kind ResourceError carrying
\* the message of the original error, never in a successful response.
C6_OtherErrorsPropagate ==
  ( /\ last.op = "resources/read"
    /\ last.got.type = "error"
    /\ last.got.class # "ResourceNotFoundError" )
  => /\ last.resp.type = "error"
     /\ last.resp.class = "ResourceError"
     /\ last.resp.message = last.got.message

C6_Witness ==
  /\ last.op = "resources/read"
  /\ last.got = Err("ResourceError", "e2")
  /\ last.resp = Err("ResourceError", "e2")

\* C7: an exception raised while serve() negotiates ends the process with a
\* non-zero status; nothing runs afterwards and the session is not Serving.
C7_NegotiationFailureIsFatal ==
  (last.op = "serve" /\ last.resp.type = "error") =>
    /\ process.exited
    /\ process.code # 0
    /\ ~Serving
    /\ ~ENABLED Next

C7_Witness ==
  /\ last.op = "serve"
  /\ last.arg = "connect"
  /\ last.resp.type = "error"
  /\ server.created
  /\ process = [exited |-> TRUE, code |-> 1]

\* C8 (as claimed): sendLog or createContext called before Serving is
\* reached, in Unconnected or in Negotiating, fails with the
\* session-not-ready error and hands nothing to the server.
C8_NotServingFails ==
  (last.op \in {"sendLog", "createContext"} /\ ~Serving) =>
    (last.resp = SessionNotReady /\ last.got = NoResp)

\* C8 (amended): sendLog or createContext called while Unconnected, before
\* serve() has created the server object, fails with the session-not-ready
\* error and hands nothing to the server.
C8_UnconnectedFails ==
  (last.op \in {"sendLog", "createContext"} /\ ~server.created) =>
    (last.resp = SessionNotReady /\ last.got = NoResp)

C8_Witness ==
  /\ last.op = "sendLog"
  /\ Unconnected
  /\ last.resp = SessionNotReady

\* C9 (as claimed): once the session has connected, the set of bound request
\* kinds is the same in every later state.
C9_BindingNeverChanges ==
  [][(Serving /\ ~process'.exited) => (server'.handlers = server.handlers)]_vars

\* C9 (amended): once the server exists, the set of bound request kinds
\* changes only in a step that is a further call of serve(); registrations,
\* sendLog, createContext and inbound requests leave it as it is.
C9_BindingChangesOnlyByServe ==
  [][(server.created /\ server'.handlers # server.handlers)
       => (serves' = serves + 1)]_vars

C9_Witness ==
  /\ Serving
  /\ last.op = "tool"
  /\ toolManager # <<>>
  /\ ToolKinds \cap server.handlers = {}

RequiredOf(config) ==
  {config.inputs[i].name : i \in {j \in 1..Len(config.inputs) : config.inputs[j].required}}

\* C11: a call-tool or get-prompt request whose registry operation fails
\* (unknown name, missing required argument, handler exception) ends in that
\* typed failure; no successful response is produced for it.
C11_ToolAndPromptFailuresPropagate ==
  (last.op \in {"tools/call", "prompts/get"} /\ last.got.type = "error") =>
    /\ last.resp.type = "error"
    /\ last.resp.class = last.got.class
    /\ last.resp.message = last.got.message
    /\ last.resp.class \in
         {"ToolNotFoundError", "PromptNotFoundError", "MissingArgumentError",
          "ToolExecutionError", "PromptExecutionError"}

C11_Witness ==
  /\ last.op = "tools/call"
  /\ last.got = Err("ToolExecutionError", "e1")
  /\ last.resp = Err("ToolExecutionError", "e1")

\* C12: a call of a registered tool fails with MissingArgumentError exactly
\* when an input declared required is absent from the arguments; a key the
\* tool does not declare never makes it fail.
C12_MissingArgumentIffRequiredAbsent ==
  /\ ( /\ last.op = "tools/call"
       /\ last.got.type # "none"
       /\ last.arg.name \in Names(toolManager) )
     => /\ (last.resp.class = "MissingArgumentError")
             <=> ~(RequiredOf(Entry(toolManager, last.arg.name)) \subseteq last.arg.args)
        /\ (last.resp.class = "MissingArgumentError")
             => (last.resp.message \in
                   RequiredOf(Entry(toolManager, last.arg.name)) \ last.arg.args)
  /\ \A r \in inflight :
       (r.kind = "tools/call")
         => (RequiredOf(Entry(toolManager, r.name)) \subseteq r.args)

C12_Witness ==
  /\ last.op = "tools/call"
  /\ last.got.type = "error"
  /\ last.arg = [name |-> "add", args |-> {"a"}]
  /\ last.resp = Err("MissingArgumentError", "b")
  /\ \E r \in inflight : r.kind = "tools/call" /\ r.args = {"a", "b", "x"}

\* C13: a read-resource request that matches no static resource runs the
\* handler of the earliest registered template that matches its URI, and of
\* no other, also when a later template matches it too.
C13_EarliestTemplateWins ==
  \A r \in inflight :
    (r.kind = "resources/read" /\ r.via > 0) =>
      /\ r.uri \notin Range(resourceManager.resources)
      /\ r.via <= Len(resourceManager.templates)
      /\ Matches(resourceManager.templates[r.via], r.uri)
      /\ \A j \in 1..(r.via - 1) : ~Matches(resourceManager.templates[j], r.uri)

C13_Witness ==
  \E r \in inflight :
    /\ r.kind = "resources/read"
    /\ r.via = 1
    /\ r.uri \notin Range(resourceManager.resources)
    /\ Len(resourceManager.templates) = 2
    /\ resourceManager.templates[1] # resourceManager.templates[2]
    /\ Matches(resourceManager.templates[2], r.uri)

Phase ==
  IF process.exited THEN "Exited"
  ELSE IF ~server.created THEN "Unconnected"
  ELSE IF ~server.connected THEN "Negotiating"
  ELSE "Serving"

\* A step in which an inbound request is delivered: a handler starts, or the
\* request is answered at once.
Delivered ==
  \/ ~(inflight' \subseteq inflight)
  \/ inflight' = inflight /\ last' # last /\ last'.op \in RequestKinds

\* C14 (as claimed): the session moves only Unconnected -> Negotiating ->
\* Serving.
C14_OnlyForward ==
  [][(~process'.exited /\ Phase' # Phase) =>
       (<<Phase, Phase'>> \in {<<"Unconnected", "Negotiating">>,
                               <<"Negotiating", "Serving">>})]_vars

\* C14 (amended): in each call of serve() the capability set and all
\* applicable handlers are in place when Negotiating is entered, before the
\* connect is started; Serving is entered only from Negotiating, by the
\* completed connect, with the handlers as bound; a request is delivered
\* only in Serving.  Besides Unconnected -> Negotiating -> Serving the
\* session moves from Serving back to Negotiating when serve() is called
\* again.
C14_BindBeforeConnect ==
  [][/\ (~process'.exited /\ Phase' # Phase) =>
          (<<Phase, Phase'>> \in {<<"Unconnected", "Negotiating">>,
                                  <<"Negotiating", "Serving">>,
                                  <<"Serving", "Negotiating">>})
     /\ (Phase' = "Negotiating" /\ Phase # "Negotiating") =>
          /\ serves' = serves + 1
          /\ pc' = "connecting"
          /\ server'.capabilities = registerCapabilities
          /\ server'.handlers = registerCoreHandlers
     /\ (Phase' = "Serving" /\ Phase # "Serving") =>
          /\ pc = "connecting"
          /\ pc' = "done"
          /\ server'.handlers = server.handlers
          /\ server'.capabilities = server.capabilities
     /\ Delivered => Phase = "Serving"]_vars

C14_Witness ==
  /\ Serving
  /\ last.op = "serve"
  /\ last.arg = "connect"
  /\ serves = 1
  /\ "tools/call" \in server.handlers

\* A step that handles an inbound request: it is delivered, or its
\* suspended handler completes.
Handled == Delivered \/ inflight' # inflight

\* C15: handling an inbound request of any bound kind, to a result or to a
\* failure, leaves the five registries, the advertised capability set and
\* the set of bound handlers unchanged.
C15_RequestsChangeNothing ==
  [][Handled => (registries' = registries /\ server' = server)]_vars

C15_Witness ==
  /\ Serving
  /\ last.op = "resources/read"
  /\ last.got.type = "result"
  /\ last.resp.type = "result"
  /\ resourceManager.resources # <<>>

Completion == [ok |-> TRUE, val |-> "hello"]

\* What a request in flight can do while others are in flight too.
NoneWaits ==
  \A r \in inflight :
    /\ r.kind = "resources/read" => ENABLED ReadResourceDone(r, Completion)
    /\ r.kind = "tools/call" => ENABLED CallToolDone(r, Completion)
    /\ r.kind = "prompts/get" => ENABLED GetPromptDone(r, Completion)
    /\ \A k \in server.handlers \cap {"resources/list", "tools/list", "prompts/list"} :
         ENABLED ListRequest(k)
    /\ (FreeIds # {} /\ "tools/call" \in server.handlers) =>
         \A c \in Range(toolManager) : \A m \in Tokens :
           ENABLED CallToolStart(c.name, {"a", "b", "x"}, m)

\* A request leaves, or joins, the requests in flight alone; one that
\* leaves does so with the outcome of its own handler.
LeavesAlone ==
  /\ \A r \in inflight : r \notin inflight' =>
       /\ inflight' = inflight \ {r}
       /\ last'.op = r.kind
       /\ last'.got.type = "result" \/ last'.got.message \in Messages
  /\ \A r \in inflight' : r \notin inflight =>
       inflight' = inflight \cup {r}

\* C16: requests in flight are independent of one another: while one is
\* suspended, each other one can run to its response, list requests are
\* answered and a further call-tool request is accepted; a request leaves
\* only by the outcome of its own handler, which leaves every other request
\* in flight as it was, and the core never completes or cancels one itself.
C16_RequestsIndependent == []NoneWaits /\ [][LeavesAlone]_vars

C16_Witness ==
  \E r1 \in inflight : \E r2 \in inflight :
    /\ r1.kind = "tools/call"
    /\ r2.kind = "resources/read"

\* C17: every call-tool request in flight runs with a context built from its
\* own correlation metadata, and no two of them run with the same context
\* object, whatever the interleaving.
C17_OwnContext ==
  \A r \in inflight :
    r.kind = "tools/call" =>
      /\ r.ctx.meta = r.meta
      /\ r.ctx.obj # NoContext.obj
      /\ \A q \in inflight \ {r} : q.kind = "tools/call" => q.ctx.obj # r.ctx.obj

C17_Witness ==
  \E r \in inflight : \E q \in inflight :
    /\ r.kind = "tools/call"
    /\ q.kind = "tools/call"
    /\ r.meta # q.meta
    /\ r.ctx.meta = r.meta
    /\ q.ctx.meta = q.meta
    /\ r.ctx.obj # q.ctx.obj

\* The step is an application of the Tool decorator to the method named
\* last'.arg.
Decorated(i) ==
  /\ ctor.pc = "defining"
  /\ ctor'.pc = "defining"
  /\ last'.op = "Tool"
  /\ i \in 1..Len(ctor.prototype)
  /\ ctor.prototype[i].name = last'.arg

\* C18: the Tool decorator leaves on the method a tool configuration named
\* after the method, with one input per declared parameter, in declaration
\* order, required exactly when the parameter is not optional; every other
\* configuration of the method is kept, the descriptor is the one it was
\* given, and no other method is touched.
C18_ToolConfigFromMethod ==
  [][ \A i \in 1..MaxMethods : Decorated(i) =>
        LET before == ctor.prototype[i]
            after == ctor'.prototype[i]
        IN  /\ after.metadata.present
            /\ Cardinality(after.metadata.toolConfig) = 1
            /\ LET toolConfig == The(after.metadata.toolConfig)
               IN  /\ toolConfig.name = before.name
                   /\ Len(toolConfig.inputs) = Len(before.parameters)
                   /\ \A k \in 1..Len(before.parameters) :
                        /\ toolConfig.inputs[k].name = before.parameters[k].name
                        /\ toolConfig.inputs[k].required = ~before.parameters[k].optional
            /\ after.metadata.promptConfig = before.metadata.promptConfig
            /\ after.metadata.rootConfig = before.metadata.rootConfig
            /\ after.metadata.resourceConfig = before.metadata.resourceConfig
            /\ after.metadata.resourceTemplateConfig = before.metadata.resourceTemplateConfig
            /\ after.descriptor = before.descriptor
            /\ after.name = before.name
            /\ \A j \in 1..Len(ctor.prototype) : j # i => ctor'.prototype[j] = ctor.prototype[j]
    ]_vars

C18_Witness ==
  /\ last.op = "Tool"
  /\ \E i \in 1..Len(ctor.prototype) : \E j \in 1..Len(ctor.prototype) :
       /\ ctor.prototype[i].metadata.toolConfig # {}
       /\ ctor.prototype[i].metadata.promptConfig # {}
       /\ ctor.prototype[j].metadata.toolConfig # {}
       /\ Len(ctor.prototype[j].parameters) = 2
       /\ The(ctor.prototype[j].metadata.toolConfig).inputs[1].required
       /\ ~The(ctor.prototype[j].metadata.toolConfig).inputs[2].required

\* The configurations of one kind the class carries on its methods.
ClassConfigs(kind) ==
  UNION {ctor.prototype[i].metadata[kind] : i \in 1..Len(ctor.prototype)}

\* C19: serve() is started only when the constructor has applied every
\* registration of the class: the class-level roots come first in the roots
\* registry, every configuration of every method is in its registry, and
\* the capability set serve() computes counts exactly these entries; when a
\* registration raised, serve() was never started.
C19_RegisteredBeforeServe ==
  /\ (serves > 0 \/ server.created) =>
       /\ ctor.pc = "registering"
       /\ ctor.method > Len(ctor.prototype)
       /\ Len(rootsManager) >= Len(ctor.rootConfigs)
       /\ \A k \in 1..Len(ctor.rootConfigs) : rootsManager[k] = ctor.rootConfigs[k]
       /\ ClassConfigs("toolConfig") = Range(toolManager)
       /\ ClassConfigs("promptConfig") = Range(promptManager)
       /\ ClassConfigs("rootConfig") \cup Range(ctor.rootConfigs) = Range(rootsManager)
       /\ ClassConfigs("resourceConfig") = Range(resourceManager.resources)
       /\ ClassConfigs("resourceTemplateConfig") = Range(resourceManager.templates)
  /\ server.created =>
       /\ "tools" \in server.capabilities <=> ClassConfigs("toolConfig") # {}
       /\ "prompts" \in server.capabilities <=> ClassConfigs("promptConfig") # {}
       /\ "roots" \in server.capabilities <=>
            (ClassConfigs("rootConfig") # {} \/ ctor.rootConfigs # <<>>)
       /\ "resources" \in server.capabilities <=>
            (ClassConfigs("resourceConfig") # {}
               \/ ClassConfigs("resourceTemplateConfig") # {})
  /\ ctor.pc = "raised" =>
       /\ serves = 0
       /\ server = NullServer
       /\ pc = "idle"

C19_Witness ==
  /\ JustBound
  /\ Len(ctor.prototype) = 2
  /\ ctor.rootConfigs # <<>>
  /\ ClassConfigs("toolConfig") # {}
  /\ ClassConfigs("resourceTemplateConfig") # {}
  /\ server.capabilities = {"logging", "tools", "roots", "resources"}

\* The constructor gave up at the second method.
C19_Raised ==
  /\ ctor.pc = "raised"
  /\ ctor.method = 2
  /\ last.resp.type = "error"


============================================================================
